---------------------------- MODULE Spec2Model ----------------------------
(***************************************************************************)
(* A model of chess.js, the console chess move tracker.                    *)
(*                                                                         *)
(* JavaScript values are tagged records [t, v]; arrays are sequences, so   *)
(* the JavaScript index i is the sequence index i + 1.  The save file is a *)
(* sequence of JSON tokens, written by JSONstringify and read by          *)
(* JSONparse.  A move string is a sequence of one-character strings.      *)
(***************************************************************************)
EXTENDS Integers, Sequences, FiniteSets, TLC

VARIABLES
  board,          \* the module-level `board`
  currentPlayer,  \* the module-level `currentPlayer`
  file,           \* the save file: [exists, data]
  out,            \* what the last operation printed, line by line
  exit,           \* how the last operation ended: "none", "ok", "uncaught"
  last,           \* the last operation: [op, arg, res]
  pre,            \* board, currentPlayer and file when the last operation began
  saved           \* the state written by the last successful save, while the
                  \* file still holds that snapshot

vars == <<board, currentPlayer, file, out, exit, last, pre, saved>>

---------------------------------------------------------------------------
(* JavaScript values *)

Str(s) == [t |-> "string", v |-> s]
Num(s) == [t |-> "number", v |-> s]
Bool(s) == [t |-> "boolean", v |-> s]
Arr(q) == [t |-> "array", v |-> q]
Obj(members) == [t |-> "object", v |-> members]
Null == [t |-> "null", v |-> "null"]
Undefined == [t |-> "undefined", v |-> "undefined"]

Member(k, x) == [key |-> k, val |-> x]

\* A grid literal: rows of one-character strings as an array of arrays.
Grid(rows) ==
  Arr([i \in 1..Len(rows) |-> Arr([j \in 1..Len(rows[i]) |-> Str(rows[i][j])])])

InitialBoard ==
  Grid(<< <<"r", "n", "b", "q", "k", "b", "n", "r">>,
          <<"p", "p", "p", "p", "p", "p", "p", "p">>,
          <<".", ".", ".", ".", ".", ".", ".", ".">>,
          <<".", ".", ".", ".", ".", ".", ".", ".">>,
          <<".", ".", ".", ".", ".", ".", ".", ".">>,
          <<".", ".", ".", ".", ".", ".", ".", ".">>,
          <<"P", "P", "P", "P", "P", "P", "P", "P">>,
          <<"R", "N", "B", "Q", "K", "B", "N", "R">> >>)

InitialPlayer == Str("white")

---------------------------------------------------------------------------
(* Property and index reads *)

\* obj[key] for the two keys the program reads: a TypeError on null and
\* undefined, undefined on a value without the key, the last member of that
\* key on an object.
RECURSIVE Lookup(_, _, _)
Lookup(members, key, n) ==
  IF n = 0 THEN Undefined
  ELSE IF members[n].key = key THEN members[n].val
  ELSE Lookup(members, key, n - 1)

CanRead(x) == x.t \notin {"null", "undefined"}

GetProp(x, key) ==
  IF x.t = "object" THEN Lookup(x.v, key, Len(x.v)) ELSE Undefined

\* x[i] for an index i >= 0 on a value that can be read: the element of an
\* array, the string itself at index 0 of a one-character string, undefined
\* past the end and on numbers, booleans and objects.
OneChar ==
  {"a", "b", "c", "d", "e", "f", "g", "h", "i", "x", "A", "E", "X",
   "p", "n", "r", "q", "k", "P", "N", "B", "R", "Q", "K", ".",
   "0", "1", "2", "3", "4", "5", "6", "7", "8", "9", "\n", " "}

GetIndex(x, i) ==
  CASE x.t = "array" -> IF i + 1 <= Len(x.v) THEN x.v[i + 1] ELSE Undefined
    [] x.t = "string" /\ x.v \in OneChar -> IF i = 0 THEN x ELSE Undefined
    [] x.t \in {"number", "boolean", "object"} -> Undefined

---------------------------------------------------------------------------
(* JSON text: a sequence of tokens *)

Punct(s) == [k |-> "punct", s |-> s]
StrTok(s) == [k |-> "string", s |-> s]
NumTok(s) == [k |-> "number", s |-> s]
LitTok(s) == [k |-> "literal", s |-> s]
\* white space: a line break with its indentation, or the blank after a colon
NewLine == [k |-> "ws", s |-> "\n"]
Blank == [k |-> "ws", s |-> " "]

RECURSIVE Stringify(_)
RECURSIVE StringifyElements(_, _)
RECURSIVE StringifyMembers(_, _, _)

\* The elements of an array from index n on, each on a line of its own.
StringifyElements(q, n) ==
  IF n > Len(q) THEN <<>>
  ELSE <<NewLine>>
       \o (IF q[n].t = "undefined" THEN <<LitTok("null")>> ELSE Stringify(q[n]))
       \o (IF n < Len(q) THEN <<Punct(",")>> ELSE <<>>)
       \o StringifyElements(q, n + 1)

\* The members of an object from index n on; a member whose value is
\* undefined is left out.  first: no member has been written yet.
StringifyMembers(q, n, first) ==
  IF n > Len(q) THEN <<>>
  ELSE IF q[n].val.t = "undefined" THEN StringifyMembers(q, n + 1, first)
  ELSE (IF first THEN <<>> ELSE <<Punct(",")>>)
       \o <<NewLine, StrTok(q[n].key), Punct(":"), Blank>>
       \o Stringify(q[n].val)
       \o StringifyMembers(q, n + 1, FALSE)

\* JSON.stringify(x, null, 2) of a value other than undefined.
Stringify(x) ==
  CASE x.t = "string" -> <<StrTok(x.v)>>
    [] x.t = "number" -> <<NumTok(x.v)>>
    [] x.t = "boolean" -> <<LitTok(x.v)>>
    [] x.t = "null" -> <<LitTok("null")>>
    [] x.t = "array" ->
         IF Len(x.v) = 0 THEN <<Punct("["), Punct("]")>>
         ELSE <<Punct("[")>> \o StringifyElements(x.v, 1) \o <<NewLine, Punct("]")>>
    [] x.t = "object" ->
         LET body == StringifyMembers(x.v, 1, TRUE) IN
         IF Len(body) = 0 THEN <<Punct("{"), Punct("}")>>
         ELSE <<Punct("{")>> \o body \o <<NewLine, Punct("}")>>

JSONstringify(x) == Stringify(x)

\* A parse result: [ok, val, pos], pos the index of the next token.
SyntaxError == [ok |-> FALSE, val |-> Undefined, pos |-> 0]
Parsed(x, p) == [ok |-> TRUE, val |-> x, pos |-> p]

RECURSIVE SkipWs(_, _)
SkipWs(toks, i) ==
  IF i <= Len(toks) /\ toks[i].k = "ws" THEN SkipWs(toks, i + 1) ELSE i

IsPunct(toks, i, s) == i <= Len(toks) /\ toks[i] = Punct(s)

RECURSIVE ParseValue(_, _)
RECURSIVE ParseElements(_, _, _)
RECURSIVE ParseMembers(_, _, _)

ParseElements(toks, i, acc) ==
  LET r == ParseValue(toks, i) IN
  IF ~r.ok THEN SyntaxError
  ELSE LET j == SkipWs(toks, r.pos) IN
       IF IsPunct(toks, j, ",") THEN ParseElements(toks, j + 1, Append(acc, r.val))
       ELSE IF IsPunct(toks, j, "]") THEN Parsed(Arr(Append(acc, r.val)), j + 1)
       ELSE SyntaxError

ParseMembers(toks, i, acc) ==
  LET a == SkipWs(toks, i) IN
  IF ~(a <= Len(toks) /\ toks[a].k = "string") THEN SyntaxError
  ELSE LET c == SkipWs(toks, a + 1) IN
       IF ~IsPunct(toks, c, ":") THEN SyntaxError
       ELSE LET r == ParseValue(toks, c + 1) IN
            IF ~r.ok THEN SyntaxError
            ELSE LET j == SkipWs(toks, r.pos)
                     more == Append(acc, Member(toks[a].s, r.val)) IN
                 IF IsPunct(toks, j, ",") THEN ParseMembers(toks, j + 1, more)
                 ELSE IF IsPunct(toks, j, "}") THEN Parsed(Obj(more), j + 1)
                 ELSE SyntaxError

ParseValue(toks, i0) ==
  LET i == SkipWs(toks, i0) IN
  IF i > Len(toks) THEN SyntaxError
  ELSE LET tk == toks[i] IN
       CASE tk.k = "string" -> Parsed(Str(tk.s), i + 1)
         [] tk.k = "number" -> Parsed(Num(tk.s), i + 1)
         [] tk.k = "literal" ->
              IF tk.s = "null" THEN Parsed(Null, i + 1)
              ELSE IF tk.s \in {"true", "false"} THEN Parsed(Bool(tk.s), i + 1)
              ELSE SyntaxError
         [] tk = Punct("[") ->
              IF IsPunct(toks, SkipWs(toks, i + 1), "]")
              THEN Parsed(Arr(<<>>), SkipWs(toks, i + 1) + 1)
              ELSE ParseElements(toks, i + 1, <<>>)
         [] tk = Punct("{") ->
              IF IsPunct(toks, SkipWs(toks, i + 1), "}")
              THEN Parsed(Obj(<<>>), SkipWs(toks, i + 1) + 1)
              ELSE ParseMembers(toks, i + 1, <<>>)
         [] OTHER -> SyntaxError

\* JSON.parse(text): one value and nothing but white space after it.
JSONparse(toks) ==
  LET r == ParseValue(toks, 1) IN
  IF r.ok /\ SkipWs(toks, r.pos) > Len(toks) THEN r ELSE SyntaxError

---------------------------------------------------------------------------
(* Console output: a line is a sequence of coloured segments *)

Seg(c, s) == [color |-> c, text |-> s]
Line(c, s) == <<Seg(c, s)>>

SavedLine == Line("green", "Game saved successfully!")
LoadedLine == Line("green", "Game loaded successfully!")
NoSavedGameLine == Line("yellow", "No saved game found. Starting new game.")
InvalidMoveLine == Line("red", "Invalid move!")
MoveSuccessfulLine == Line("green", "Move successful!")
FilesLine == Line("blue", "  a b c d e f g h")
HelpLine == Line("none", "help")
ParseMoveMessage == "Invalid move format. Use algebraic notation (e.g., e2e4)."

---------------------------------------------------------------------------
(* Strings *)

\* String.prototype.toUpperCase on the strings of the model: the letters a-z
\* map to A-Z, every other one-character string to itself.
UpperCase ==
  [a |-> "A", b |-> "B", c |-> "C", d |-> "D", e |-> "E", f |-> "F", g |-> "G",
   h |-> "H", i |-> "I", j |-> "J", k |-> "K", l |-> "L", m |-> "M", n |-> "N",
   o |-> "O", p |-> "P", q |-> "Q", r |-> "R", s |-> "S", t |-> "T", u |-> "U",
   v |-> "V", w |-> "W", x |-> "X", y |-> "Y", z |-> "Z"]

toUpperCase(s) == IF s \in DOMAIN UpperCase THEN UpperCase[s] ELSE s

\* charCodeAt of a one-character string, for the letters a to i.
CharCode ==
  [a |-> 97, b |-> 98, c |-> 99, d |-> 100, e |-> 101, f |-> 102, g |-> 103,
   h |-> 104, i |-> 105]

\* parseInt of one decimal digit.
parseInt(ch) ==
  CASE ch = "0" -> 0 [] ch = "1" -> 1 [] ch = "2" -> 2 [] ch = "3" -> 3
    [] ch = "4" -> 4 [] ch = "5" -> 5 [] ch = "6" -> 6 [] ch = "7" -> 7
    [] ch = "8" -> 8 [] ch = "9" -> 9

\* The rank label `${8 - i}` of row i.
RankLabel(i) ==
  CASE i = 0 -> "8" [] i = 1 -> "7" [] i = 2 -> "6" [] i = 3 -> "5"
    [] i = 4 -> "4" [] i = 5 -> "3" [] i = 6 -> "2" [] i = 7 -> "1"

\* `${x}` for a string, a number, a boolean, null or undefined.
ToText(x) ==
  CASE x.t \in {"string", "number", "boolean"} -> x.v
    [] x.t = "null" -> "null"
    [] x.t = "undefined" -> "undefined"

---------------------------------------------------------------------------
(* displayBoard *)

\* One cell of displayBoard's inner loop: [thrown, seg].  board[i][j] throws a
\* TypeError when board or board[i] is null or undefined, piece.toUpperCase()
\* when piece is not a string.
DisplayCell(b, i, j) ==
  IF ~CanRead(b) \/ ~CanRead(GetIndex(b, i)) THEN [thrown |-> TRUE, seg |-> Seg("none", "")]
  ELSE LET piece == GetIndex(GetIndex(b, i), j) IN
       IF piece = Str(".") THEN [thrown |-> FALSE, seg |-> Seg("gray", ".")]
       ELSE IF piece.t # "string" THEN [thrown |-> TRUE, seg |-> Seg("none", "")]
       ELSE [thrown |-> FALSE,
             seg |-> Seg(IF toUpperCase(piece.v) = piece.v THEN "white" ELSE "black",
                         piece.v)]

DisplayRowThrows(b, i) == \E j \in 0..7 : DisplayCell(b, i, j).thrown

DisplayRow(b, i) ==
  <<Seg("none", RankLabel(i))>>
  \o [j \in 1..8 |-> DisplayCell(b, i, j - 1).seg]
  \o <<Seg("none", RankLabel(i))>>

\* displayBoard(): [thrown, lines].  The rows before the first one that throws
\* are printed; the closing lines only when no row throws.
displayBoard(b, cp) ==
  LET bad == {i \in 0..7 : DisplayRowThrows(b, i)}
      stop == IF bad = {} THEN 8 ELSE CHOOSE i \in bad : \A k \in bad : i <= k
      rows == [i \in 1..stop |-> DisplayRow(b, i - 1)]
  IN  IF bad = {}
      THEN [thrown |-> FALSE,
            lines |-> <<FilesLine>> \o rows
                      \o <<FilesLine,
                           <<Seg("cyan", "Current player: "), Seg("cyan", ToText(cp))>> >>]
      ELSE [thrown |-> TRUE, lines |-> <<FilesLine>> \o rows]

---------------------------------------------------------------------------
(* parseMove *)

FileLetters == {"a", "b", "c", "d", "e", "f", "g", "h"}
RankDigits == {"1", "2", "3", "4", "5", "6", "7", "8"}

\* The pattern without its closing anchor.
MoveRegexTest_Unanchored(move) ==
  /\ Len(move) >= 4
  /\ move[1] \in FileLetters
  /\ move[2] \in RankDigits
  /\ move[3] \in FileLetters
  /\ move[4] \in RankDigits

\* /^[a-h][1-8][a-h][1-8]$/.test(move)
MoveRegexTest(move) ==
  /\ Len(move) = 4
  /\ move[1] \in FileLetters
  /\ move[2] \in RankDigits
  /\ move[3] \in FileLetters
  /\ move[4] \in RankDigits

\* parseMove(move): [thrown, message, from, to], coordinates as <<row, col>>.
parseMove(move) ==
  IF ~MoveRegexTest(move)
  THEN [thrown |-> TRUE, message |-> ParseMoveMessage, from |-> <<>>, to |-> <<>>]
  ELSE LET fromCol == CharCode[move[1]] - CharCode["a"]
           fromRow == 8 - parseInt(move[2])
           toCol == CharCode[move[3]] - CharCode["a"]
           toRow == 8 - parseInt(move[4])
       IN  [thrown |-> FALSE, message |-> "",
            from |-> <<fromRow, fromCol>>, to |-> <<toRow, toCol>>]

---------------------------------------------------------------------------
(* isValidMove and makeMove *)

\* isValidMove without the ownership test.
isValidMove_AnyOwner(b, cp, from, to) ==
  LET piece == GetIndex(GetIndex(b, from[1]), from[2])
      isWhitePiece == Str(toUpperCase(piece.v)) = piece
      destPiece == GetIndex(GetIndex(b, to[1]), to[2])
      isDestWhite == Str(toUpperCase(destPiece.v)) = destPiece
  IN  IF piece = Str(".") THEN FALSE
      ELSE IF destPiece = Str(".") THEN TRUE
      ELSE isWhitePiece # isDestWhite

\* isValidMove without the comparison of the two colours.
isValidMove_AnyDestination(b, cp, from, to) ==
  LET piece == GetIndex(GetIndex(b, from[1]), from[2])
      isWhitePiece == Str(toUpperCase(piece.v)) = piece
  IN  IF piece = Str(".") THEN FALSE
      ELSE IF \/ (cp = Str("white") /\ ~isWhitePiece)
              \/ (cp = Str("black") /\ isWhitePiece)
           THEN FALSE
      ELSE TRUE

isValidMove(b, cp, from, to) ==
  LET piece == GetIndex(GetIndex(b, from[1]), from[2])
      isWhitePiece == Str(toUpperCase(piece.v)) = piece
      destPiece == GetIndex(GetIndex(b, to[1]), to[2])
      isDestWhite == Str(toUpperCase(destPiece.v)) = destPiece
  IN  IF piece = Str(".") THEN FALSE
      ELSE IF \/ (cp = Str("white") /\ ~isWhitePiece)
              \/ (cp = Str("black") /\ isWhitePiece)
           THEN FALSE
      ELSE IF destPiece = Str(".") THEN TRUE
      ELSE isWhitePiece # isDestWhite

\* board[r][c] = x
SetCell(b, r, c, x) ==
  Arr([b.v EXCEPT ![r + 1] = Arr([b.v[r + 1].v EXCEPT ![c + 1] = x])])

\* makeMove passing the turn on a rejected move as well.
makeMove_FlipOnReject(b, cp, move) ==
  LET m == parseMove(move)
      cp2 == IF cp = Str("white") THEN Str("black") ELSE Str("white")
  IN
  IF m.thrown
  THEN [board |-> b, currentPlayer |-> cp, out |-> <<Line("red", m.message)>>]
  ELSE IF ~isValidMove(b, cp, m.from, m.to)
  THEN [board |-> b, currentPlayer |-> cp2, out |-> <<InvalidMoveLine>>]
  ELSE LET b1 == SetCell(b, m.to[1], m.to[2], GetIndex(GetIndex(b, m.from[1]), m.from[2]))
           b2 == SetCell(b1, m.from[1], m.from[2], Str("."))
           d == displayBoard(b2, cp2)
       IN  [board |-> b2, currentPlayer |-> cp2,
            out |-> <<MoveSuccessfulLine>> \o d.lines
                    \o (IF d.thrown THEN <<Line("red", "TypeError")>> ELSE <<>>)]

\* makeMove clearing the source cell before it copies it.
makeMove_ClearFirst(b, cp, move) ==
  LET m == parseMove(move) IN
  IF m.thrown
  THEN [board |-> b, currentPlayer |-> cp, out |-> <<Line("red", m.message)>>]
  ELSE IF ~isValidMove(b, cp, m.from, m.to)
  THEN [board |-> b, currentPlayer |-> cp, out |-> <<InvalidMoveLine>>]
  ELSE LET b1 == SetCell(b, m.from[1], m.from[2], Str("."))
           b2 == SetCell(b1, m.to[1], m.to[2], GetIndex(GetIndex(b1, m.from[1]), m.from[2]))
           cp2 == IF cp = Str("white") THEN Str("black") ELSE Str("white")
           d == displayBoard(b2, cp2)
       IN  [board |-> b2, currentPlayer |-> cp2,
            out |-> <<MoveSuccessfulLine>> \o d.lines
                    \o (IF d.thrown THEN <<Line("red", "TypeError")>> ELSE <<>>)]

\* makeMove(move): [board, currentPlayer, out].  Every error thrown inside is
\* caught and its message printed.
makeMove(b, cp, move) ==
  LET m == parseMove(move) IN
  IF m.thrown
  THEN [board |-> b, currentPlayer |-> cp, out |-> <<Line("red", m.message)>>]
  ELSE IF ~isValidMove(b, cp, m.from, m.to)
  THEN [board |-> b, currentPlayer |-> cp, out |-> <<InvalidMoveLine>>]
  ELSE LET b1 == SetCell(b, m.to[1], m.to[2], GetIndex(GetIndex(b, m.from[1]), m.from[2]))
           b2 == SetCell(b1, m.from[1], m.from[2], Str("."))
           cp2 == IF cp = Str("white") THEN Str("black") ELSE Str("white")
           d == displayBoard(b2, cp2)
       IN  [board |-> b2, currentPlayer |-> cp2,
            out |-> <<MoveSuccessfulLine>> \o d.lines
                    \o (IF d.thrown THEN <<Line("red", "TypeError")>> ELSE <<>>)]

---------------------------------------------------------------------------
(* saveGame and loadGame *)

NoFile == [exists |-> FALSE, data |-> <<>>]
FileOf(toks) == [exists |-> TRUE, data |-> toks]

\* saveGame writing the board without the side to move.
saveGame_BoardOnly(b, cp, f, io) ==
  LET state == Obj(<<Member("board", b)>>) IN
  IF io = "ok"
  THEN [file |-> FileOf(JSONstringify(state)), out |-> <<SavedLine>>, rejected |-> FALSE]
  ELSE [file |-> f, out |-> <<>>, rejected |-> TRUE]

\* saveGame(): [file, out, rejected].  io is how fs.writeFile ends: "ok", or
\* "fail" with the file as it was and the promise rejected.
saveGame(b, cp, f, io) ==
  LET state == Obj(<<Member("board", b), Member("currentPlayer", cp)>>) IN
  IF io = "ok"
  THEN [file |-> FileOf(JSONstringify(state)), out |-> <<SavedLine>>, rejected |-> FALSE]
  ELSE [file |-> f, out |-> <<>>, rejected |-> TRUE]

\* loadGame(): [board, currentPlayer, out].  io is how fs.readFile ends on a
\* file that exists.  A failed read, a SyntaxError of JSON.parse and the
\* TypeError of state.board on null all end in the catch block.
loadGame(b, cp, f, io) ==
  LET caught == [board |-> b, currentPlayer |-> cp, out |-> <<NoSavedGameLine>>]
      r == JSONparse(f.data)
  IN  IF ~f.exists \/ io # "ok" THEN caught
      ELSE IF ~r.ok THEN caught
      ELSE IF ~CanRead(r.val) THEN caught
      ELSE [board |-> GetProp(r.val, "board"),
            currentPlayer |-> GetProp(r.val, "currentPlayer"),
            out |-> <<LoadedLine>>]

---------------------------------------------------------------------------
(* History *)

NoOp == [op |-> "none", arg |-> <<>>, res |-> "none"]
Op(name, a, r) == [op |-> name, arg |-> a, res |-> r]
Before(b, cp, f) == [board |-> b, currentPlayer |-> cp, file |-> f]
NothingSaved == [valid |-> FALSE, board |-> InitialBoard, currentPlayer |-> InitialPlayer]
Snapshot(b, cp) == [valid |-> TRUE, board |-> b, currentPlayer |-> cp]

---------------------------------------------------------------------------
(* Spec: the program as it is run, one process for each command.  Every   *)
(* process begins with the module's initial values; only the save file    *)
(* outlives it.  board and currentPlayer are the memory of the last       *)
(* process as it ended.                                                   *)

\* A process that began with the memory the process before it ended with.
ModuleLoad_Stale == [board |-> board, currentPlayer |-> currentPlayer]

\* The values the module's top level gives board and currentPlayer.
ModuleLoad == [board |-> InitialBoard, currentPlayer |-> InitialPlayer]

\* The notations tried on the command line: squares of both colours and
\* empty squares, the same square twice, and strings the pattern rejects.
CommandLineMoves ==
  {<<f1, r1, f2, r2>> : f1 \in {"e"}, r1 \in {"2", "4", "7"},
                         f2 \in {"e", "h"}, r2 \in {"2", "7"}}
  \cup {<<>>, <<"e", "2">>, <<"e", "2", "e", "9">>, <<"i", "9", "i", "9">>,
        <<"E", "2", "E", "4">>, <<"e", "2", "e", "4", "\n">>}

IOResults == {"ok", "fail"}

\* What the save file may hold when a process starts, besides what save
\* wrote: nothing, text that is not JSON, JSON of another shape, and
\* snapshots written by hand.
HandWritten ==
  { <<>>,
    <<Punct("{"), StrTok("board"), Punct(":")>>,
    <<LitTok("null")>>,
    <<NumTok("5")>>,
    <<Punct("{"), Punct("}")>>,
    JSONstringify(Obj(<<Member("board", Arr(<<>>)),
                        Member("currentPlayer", Str("white"))>>)),
    JSONstringify(Obj(<<Member("board", InitialBoard),
                        Member("currentPlayer", Str("green"))>>)),
    JSONstringify(Obj(<<Member("board", SetCell(InitialBoard, 4, 4, Null)),
                        Member("currentPlayer", Str("black"))>>)),
    JSONstringify(Obj(<<Member("board", SetCell(InitialBoard, 4, 4, Str("x"))),
                        Member("currentPlayer", Str("white"))>>)),
    JSONstringify(Obj(<<Member("currentPlayer", Str("black")),
                        Member("board",
                               SetCell(SetCell(InitialBoard, 4, 4, Str("P")),
                                       6, 4, Str(".")))>>)) }

FileContents == {NoFile} \cup {FileOf(toks) : toks \in HandWritten}

Init ==
  /\ board = InitialBoard
  /\ currentPlayer = InitialPlayer
  /\ file = NoFile
  /\ out = <<>>
  /\ exit = "none"
  /\ last = NoOp
  /\ pre = Before(InitialBoard, InitialPlayer, NoFile)
  /\ saved = NothingSaved

\* chess.js move <notation>
MoveCommand(notation) ==
  LET m0 == ModuleLoad
      r == makeMove(m0.board, m0.currentPlayer, notation)
  IN  /\ board' = r.board
      /\ currentPlayer' = r.currentPlayer
      /\ out' = r.out
      /\ exit' = "ok"
      /\ last' = Op("move", notation, "none")
      /\ pre' = Before(m0.board, m0.currentPlayer, file)
      /\ UNCHANGED <<file, saved>>

\* chess.js board
BoardCommand ==
  LET m0 == ModuleLoad
      d == displayBoard(m0.board, m0.currentPlayer)
  IN  /\ board' = m0.board
      /\ currentPlayer' = m0.currentPlayer
      /\ out' = d.lines
      /\ exit' = IF d.thrown THEN "uncaught" ELSE "ok"
      /\ last' = Op("board", <<>>, "none")
      /\ pre' = Before(m0.board, m0.currentPlayer, file)
      /\ UNCHANGED <<file, saved>>

\* chess.js save
SaveCommand(io) ==
  LET m0 == ModuleLoad
      r == saveGame(m0.board, m0.currentPlayer, file, io)
  IN  /\ board' = m0.board
      /\ currentPlayer' = m0.currentPlayer
      /\ file' = r.file
      /\ out' = r.out
      /\ exit' = IF r.rejected THEN "uncaught" ELSE "ok"
      /\ last' = Op("save", <<>>, io)
      /\ pre' = Before(m0.board, m0.currentPlayer, file)
      /\ saved' = IF r.rejected THEN saved ELSE Snapshot(m0.board, m0.currentPlayer)

\* chess.js load: loadGame, then displayBoard outside any try block.
LoadCommand(io) ==
  LET m0 == ModuleLoad
      l == loadGame(m0.board, m0.currentPlayer, file, io)
      d == displayBoard(l.board, l.currentPlayer)
  IN  /\ board' = l.board
      /\ currentPlayer' = l.currentPlayer
      /\ out' = l.out \o d.lines
      /\ exit' = IF d.thrown THEN "uncaught" ELSE "ok"
      /\ last' = Op("load", <<>>, io)
      /\ pre' = Before(m0.board, m0.currentPlayer, file)
      /\ UNCHANGED <<file, saved>>

\* chess.js with no arguments
NoArguments ==
  LET m0 == ModuleLoad
      d == displayBoard(m0.board, m0.currentPlayer)
  IN  /\ board' = m0.board
      /\ currentPlayer' = m0.currentPlayer
      /\ out' = <<HelpLine>> \o d.lines
      /\ exit' = IF d.thrown THEN "uncaught" ELSE "ok"
      /\ last' = Op("help", <<>>, "none")
      /\ pre' = Before(m0.board, m0.currentPlayer, file)
      /\ UNCHANGED <<file, saved>>

\* Between two processes the user replaces or removes the save file.
EditFile(f) ==
  /\ f # file
  /\ file' = f
  /\ saved' = [saved EXCEPT !.valid = FALSE]
  /\ out' = <<>>
  /\ exit' = "none"
  /\ last' = Op("edit", <<>>, "none")
  /\ pre' = Before(board, currentPlayer, f)
  /\ UNCHANGED <<board, currentPlayer>>

Next ==
  \/ \E notation \in CommandLineMoves : MoveCommand(notation)
  \/ BoardCommand
  \/ \E io \in IOResults : SaveCommand(io)
  \/ \E io \in IOResults : LoadCommand(io)
  \/ NoArguments
  \/ \E f \in FileContents : EditFile(f)

Spec == Init /\ [][Next]_vars

---------------------------------------------------------------------------
(* SpecFn: the functions one call at a time, on game states drawn from    *)
(* SampleBoards with either side to move.  A state is drawn; makeMove may *)
(* be called on it; saveGame may be called on the result; loadGame then   *)
(* runs as the load command runs it, on the module's initial values.      *)

MidgameBoard ==
  Grid(<< <<"r", ".", "b", "q", "k", "b", ".", "r">>,
          <<"p", "p", "p", ".", ".", "p", "p", "p">>,
          <<".", ".", "n", ".", ".", "n", ".", ".">>,
          <<".", ".", ".", "p", "p", ".", ".", ".">>,
          <<".", ".", ".", "P", "P", ".", ".", ".">>,
          <<".", ".", "N", ".", ".", "N", ".", ".">>,
          <<"P", "P", "P", ".", ".", "P", "P", "P">>,
          <<"R", ".", "B", "Q", "K", "B", ".", "R">> >>)

EndgameBoard ==
  Grid(<< <<".", ".", ".", ".", "k", ".", ".", ".">>,
          <<".", ".", ".", ".", ".", ".", ".", "P">>,
          <<".", ".", ".", ".", ".", ".", ".", ".">>,
          <<".", ".", ".", "q", ".", ".", ".", ".">>,
          <<".", ".", ".", ".", ".", ".", ".", ".">>,
          <<".", ".", ".", ".", ".", "K", ".", ".">>,
          <<"p", ".", ".", ".", ".", ".", ".", ".">>,
          <<".", ".", ".", ".", ".", ".", "R", ".">> >>)

SampleBoards == {InitialBoard, MidgameBoard, EndgameBoard}
Players == {Str("white"), Str("black")}

Coordinates == {<<r, c>> : r \in 0..7, c \in 0..7}

\* Every string the pattern accepts, and some it rejects.
WellFormedMoves ==
  {<<f1, r1, f2, r2>> : f1 \in FileLetters, r1 \in RankDigits,
                         f2 \in FileLetters, r2 \in RankDigits}

MoveArguments ==
  WellFormedMoves
  \cup {<<>>, <<"e", "2">>, <<"e", "2", "e", "9">>, <<"i", "9", "i", "9">>,
        <<"E", "2", "E", "4">>, <<"e", "2", "e", "4", "\n">>}

InitFn ==
  /\ board \in SampleBoards
  /\ currentPlayer \in Players
  /\ file = NoFile
  /\ out = <<>>
  /\ exit = "none"
  /\ last = NoOp
  /\ pre = Before(board, currentPlayer, NoFile)
  /\ saved = NothingSaved

CallIsValidMove ==
  /\ last.op = "none"
  /\ \E from \in Coordinates, to \in Coordinates :
       last' = Op("isValidMove", <<from, to>>, isValidMove(board, currentPlayer, from, to))
  /\ pre' = Before(board, currentPlayer, file)
  /\ exit' = "ok"
  /\ UNCHANGED <<board, currentPlayer, file, out, saved>>

CallMakeMove ==
  /\ last.op = "none"
  /\ \E move \in MoveArguments :
       LET r == makeMove(board, currentPlayer, move) IN
       /\ board' = r.board
       /\ currentPlayer' = r.currentPlayer
       /\ out' = r.out
       /\ last' = Op("makeMove", move, "none")
  /\ exit' = "ok"
  /\ pre' = Before(board, currentPlayer, file)
  /\ UNCHANGED <<file, saved>>

CallDisplayBoard ==
  LET d == displayBoard(board, currentPlayer) IN
  /\ last.op = "none"
  /\ out' = d.lines
  /\ exit' = IF d.thrown THEN "uncaught" ELSE "ok"
  /\ last' = Op("displayBoard", <<>>, "none")
  /\ pre' = Before(board, currentPlayer, file)
  /\ UNCHANGED <<board, currentPlayer, file, saved>>

CallSaveGame(io) ==
  LET r == saveGame(board, currentPlayer, file, io) IN
  /\ \/ last.op = "none"
     \/ last.op = "makeMove" /\ board # pre.board
  /\ file' = r.file
  /\ out' = r.out
  /\ exit' = IF r.rejected THEN "uncaught" ELSE "ok"
  /\ last' = Op("saveGame", <<>>, io)
  /\ pre' = Before(board, currentPlayer, file)
  /\ saved' = IF r.rejected THEN saved ELSE Snapshot(board, currentPlayer)
  /\ UNCHANGED <<board, currentPlayer>>

CallLoadGame(io) ==
  LET m0 == ModuleLoad
      l == loadGame(m0.board, m0.currentPlayer, file, io)
  IN  /\ last.op \in {"none", "saveGame"}
      /\ board' = l.board
      /\ currentPlayer' = l.currentPlayer
      /\ out' = l.out
      /\ exit' = "ok"
      /\ last' = Op("loadGame", <<>>, io)
      /\ pre' = Before(m0.board, m0.currentPlayer, file)
      /\ UNCHANGED <<file, saved>>

NextFn ==
  \/ CallIsValidMove
  \/ CallMakeMove
  \/ CallDisplayBoard
  \/ \E io \in IOResults : CallSaveGame(io)
  \/ \E io \in IOResults : CallLoadGame(io)

SpecFn == InitFn /\ [][NextFn]_vars

---------------------------------------------------------------------------
(* SpecParse: parseMove called once on a string: every string the pattern *)
(* accepts, and every string of at most MaxLen characters of ParseChars.  *)

MaxLen == 5

\* In and just outside the pattern's classes: the first and last file, the
\* letter after h, an upper-case file, the first and last rank, the digits on
\* either side of the ranks, a line break.
ParseChars == {"a", "h", "i", "A", "1", "8", "0", "9", "\n"}

ParseArguments ==
  WellFormedMoves \cup UNION {[1..n -> ParseChars] : n \in 0..MaxLen}

InitParse ==
  /\ board = InitialBoard
  /\ currentPlayer = InitialPlayer
  /\ file = NoFile
  /\ out = <<>>
  /\ exit = "none"
  /\ last \in {Op("argument", move, "none") : move \in ParseArguments}
  /\ pre = Before(InitialBoard, InitialPlayer, NoFile)
  /\ saved = NothingSaved

CallParseMove ==
  /\ last.op = "argument"
  /\ last' = Op("parseMove", last.arg, parseMove(last.arg))
  /\ exit' = "ok"
  /\ UNCHANGED <<board, currentPlayer, file, out, pre, saved>>

NextParse == CallParseMove

SpecParse == InitParse /\ [][NextParse]_vars

---------------------------------------------------------------------------
(* The claims *)

WhitePieces == {"P", "N", "B", "R", "Q", "K"}
BlackPieces == {"p", "n", "b", "r", "q", "k"}
Empty == "."

\* The tag in a cell of a grid, and its colour read off the tag's case.
CellOf(b, sq) == b.v[sq[1] + 1].v[sq[2] + 1].v
ColourOf(tag) ==
  IF tag \in WhitePieces THEN "white" ELSE IF tag \in BlackPieces THEN "black" ELSE "none"

IsGrid(b) ==
  /\ b.t = "array"
  /\ Len(b.v) = 8
  /\ \A i \in 1..8 :
       /\ b.v[i].t = "array"
       /\ Len(b.v[i].v) = 8
       /\ \A j \in 1..8 :
            /\ b.v[i].v[j].t = "string"
            /\ b.v[i].v[j].v \in WhitePieces \cup BlackPieces \cup {Empty}

Occupied(b) == Cardinality({sq \in Coordinates : CellOf(b, sq) # Empty})

Printed(line) == \E i \in DOMAIN out : out[i] = line

\* The index of a file letter and the number of a rank digit, by position.
FileOrder == <<"a", "b", "c", "d", "e", "f", "g", "h">>
RankOrder == <<"1", "2", "3", "4", "5", "6", "7", "8">>
FileIndex(ch) == (CHOOSE i \in 1..8 : FileOrder[i] = ch) - 1
RankNumber(ch) == CHOOSE i \in 1..8 : RankOrder[i] = ch

MadeMove == last.op = "makeMove"
MoveFrom == parseMove(last.arg).from
MoveTo == parseMove(last.arg).to
MoveApproved ==
  /\ ~parseMove(last.arg).thrown
  /\ isValidMove(pre.board, pre.currentPlayer, MoveFrom, MoveTo)

\* C1: isValidMove(from, to) is true exactly when the source cell is not
\* empty, the source piece's colour is the side to move, and the destination
\* cell is empty or holds a piece of the other colour; the squares' places on
\* the board and the piece's type play no part.
C1_IsValidMoveExactly ==
  last.op = "isValidMove" =>
    LET src == CellOf(pre.board, last.arg[1])
        dst == CellOf(pre.board, last.arg[2])
    IN  last.res = (/\ src # Empty
                    /\ Str(ColourOf(src)) = pre.currentPlayer
                    /\ (dst = Empty \/ ColourOf(dst) # ColourOf(src)))

\* A white pawn approved to capture a black piece at least two files away.
C1_Witness ==
  /\ last.op = "isValidMove"
  /\ last.res = TRUE
  /\ CellOf(pre.board, last.arg[1]) = "P"
  /\ CellOf(pre.board, last.arg[2]) \in BlackPieces
  /\ last.arg[1][2] - last.arg[2][2] >= 2

\* C2: a move command that does not succeed, because the string fails
\* parsing or isValidMove rejects the move, leaves all 64 cells and the side
\* to move as they were.
C2_FailedMoveChangesNothing ==
  (MadeMove /\ ~MoveApproved) =>
    /\ board = pre.board
    /\ currentPlayer = pre.currentPlayer

\* A well-formed move from an occupied square, rejected.
C2_Witness ==
  /\ MadeMove
  /\ ~parseMove(last.arg).thrown
  /\ ~MoveApproved
  /\ CellOf(pre.board, MoveFrom) # Empty
  /\ MoveFrom # MoveTo
  /\ Printed(InvalidMoveLine)

\* C3: applying an approved move sets the destination cell to the piece that
\* was in the source cell, empties the source cell, leaves the other 62
\* cells as they were, flips the side to move once, and touches nothing else.
C3_ApprovedMoveEffect ==
  (MadeMove /\ MoveApproved) =>
    /\ IsGrid(board)
    /\ \A sq \in Coordinates :
         CellOf(board, sq) =
           IF sq = MoveTo THEN CellOf(pre.board, MoveFrom)
           ELSE IF sq = MoveFrom THEN Empty
           ELSE CellOf(pre.board, sq)
    /\ currentPlayer \in Players
    /\ currentPlayer # pre.currentPlayer
    /\ file = pre.file

\* An approved capture.
C3_Witness ==
  /\ MadeMove
  /\ MoveApproved
  /\ Printed(MoveSuccessfulLine)
  /\ CellOf(pre.board, MoveTo) # Empty
  /\ CellOf(board, MoveTo) = CellOf(pre.board, MoveFrom)

\* C4: parseMove accepts exactly the 4-character strings file rank file rank
\* (a-h, 1-8), returning from = (8 - rank1, index of file1) and
\* to = (8 - rank2, index of file2), all in 0..7; on every other string it
\* throws the invalid-format error and returns no coordinates.
C4_ParseMoveExactly ==
  last.op = "parseMove" =>
    LET s == last.arg
        wellFormed ==
          /\ Len(s) = 4
          /\ \E i \in 1..8 : FileOrder[i] = s[1]
          /\ \E i \in 1..8 : RankOrder[i] = s[2]
          /\ \E i \in 1..8 : FileOrder[i] = s[3]
          /\ \E i \in 1..8 : RankOrder[i] = s[4]
    IN  IF wellFormed
        THEN /\ ~last.res.thrown
             /\ last.res.from = <<8 - RankNumber(s[2]), FileIndex(s[1])>>
             /\ last.res.to = <<8 - RankNumber(s[4]), FileIndex(s[3])>>
             /\ \A k \in 1..2 : last.res.from[k] \in 0..7 /\ last.res.to[k] \in 0..7
        ELSE /\ last.res.thrown
             /\ last.res.message = ParseMoveMessage
             /\ last.res.from = <<>>
             /\ last.res.to = <<>>

\* a1h8 parsed to from = (7, 0), to = (0, 7).
C4_Witness ==
  /\ last.op = "parseMove"
  /\ last.arg = <<"a", "1", "h", "8">>
  /\ ~last.res.thrown
  /\ last.res.from = <<7, 0>>
  /\ last.res.to = <<0, 7>>

\* C5: when save has written a snapshot and a later load reads that same
\* snapshot, the board and the side to move after the load are those at the
\* time of the save.
C5_SaveLoadRoundTrip ==
  (last.op = "loadGame" /\ last.res = "ok" /\ saved.valid) =>
    /\ board = saved.board
    /\ currentPlayer = saved.currentPlayer
    /\ Printed(LoadedLine)

\* A load that brought back a saved position other than the initial one, with
\* black to move.
C5_Witness ==
  /\ last.op = "loadGame"
  /\ last.res = "ok"
  /\ saved.valid
  /\ saved.board # InitialBoard
  /\ board = saved.board
  /\ currentPlayer = Str("black")

\* What the claim calls a well-formed snapshot: JSON text of an object with
\* a board of 8 rows of 8 cell tags and a side to move.
WellFormedSnapshot(toks) ==
  LET r == JSONparse(toks) IN
  /\ r.ok
  /\ r.val.t = "object"
  /\ IsGrid(GetProp(r.val, "board"))
  /\ GetProp(r.val, "currentPlayer") \in Players

\* C6: on any load failure (the save file absent, or content that is not a
\* well-formed snapshot) the state after load is the initial position with
\* white to move, and the no-saved-game message is printed instead of the
\* success message.
C6_LoadFailureFallsBack ==
  (last.op = "load" /\ (~file.exists \/ ~WellFormedSnapshot(file.data))) =>
    /\ board = InitialBoard
    /\ currentPlayer = InitialPlayer
    /\ Printed(NoSavedGameLine)
    /\ ~Printed(LoadedLine)

\* C7: no command ends in an uncaught error, whatever the move string, the
\* save file and the outcome of the file read or write.
C7_NoUncaughtError == exit # "uncaught"

\* C8: in every state reached by move and load operations the board has 8
\* rows of 8 cells, each the empty marker or a piece tag, and the side to
\* move is white or black.
C8_StateWellFormed ==
  /\ IsGrid(board)
  /\ currentPlayer \in Players

\* C9: every snapshot that save writes is the initial position with white to
\* move: each command runs in a process of its own on the module's initial
\* values, and the move command never writes the file.
C9_SaveWritesInitialPosition ==
  /\ (last.op = "save" /\ last.res = "ok") =>
       /\ file.exists
       /\ JSONparse(file.data).ok
       /\ GetProp(JSONparse(file.data).val, "board") = InitialBoard
       /\ GetProp(JSONparse(file.data).val, "currentPlayer") = Str("white")
       /\ saved = Snapshot(InitialBoard, Str("white"))
  /\ last.op = "move" => file = pre.file
  /\ last.op \in {"move", "board", "save", "load", "help"} =>
       /\ pre.board = InitialBoard
       /\ pre.currentPlayer = Str("white")
  /\ last.op \in {"board", "save", "help"} =>
       /\ board = InitialBoard
       /\ currentPlayer = Str("white")

\* A save that replaced a hand-written snapshot of another position.
C9_Witness ==
  /\ last.op = "save"
  /\ last.res = "ok"
  /\ pre.file.exists
  /\ WellFormedSnapshot(pre.file.data)
  /\ pre.file # file

\* C10: a move from a square to itself is rejected whichever side is to
\* move, so a successful move never erases the moved piece: it lowers the
\* number of occupied cells by 0 on an empty destination and by 1 on a
\* capture, and the moved piece keeps its tag.
C10_MoveKeepsThePiece ==
  /\ (last.op = "isValidMove" /\ last.arg[1] = last.arg[2]) => last.res = FALSE
  /\ (MadeMove /\ ~parseMove(last.arg).thrown /\ MoveFrom = MoveTo) =>
       /\ Printed(InvalidMoveLine)
       /\ board = pre.board
  /\ (MadeMove /\ Printed(MoveSuccessfulLine)) =>
       /\ MoveFrom # MoveTo
       /\ CellOf(board, MoveTo) = CellOf(pre.board, MoveFrom)
       /\ CellOf(board, MoveTo) # Empty
       /\ Occupied(board) =
            Occupied(pre.board) - (IF CellOf(pre.board, MoveTo) = Empty THEN 0 ELSE 1)

\* The side to move tries to move one of its own pieces onto its own square.
C10_Witness ==
  /\ MadeMove
  /\ ~parseMove(last.arg).thrown
  /\ MoveFrom = MoveTo
  /\ Str(ColourOf(CellOf(pre.board, MoveFrom))) = pre.currentPlayer
  /\ Printed(InvalidMoveLine)

===========================================================================
